---- MODULE Spec2Model ----
(***************************************************************************)
(* Binder ranking procedure of notebooks/Isolation_forest.ipynb:           *)
(* run_isolation_forest(X, feature_cols, contamination, random_state,      *)
(* min_cells).  The cell table X is a DataFrame, modelled column-wise as a *)
(* function from column names to equally long sequences.  Real numbers are *)
(* exact rationals [num, den]; den = 0 is NaN.                             *)
(***************************************************************************)
EXTENDS Integers, Sequences, FiniteSets, TLC

VARIABLES
    X,          \* the cell table, mutated in place by the call
    X_in,       \* the table as it was handed to the latest call
    X_grouped,  \* the latest call's aggregates before the filter
    result,     \* how the latest call ended: returned (X_ranked, X) or raised
    prev,       \* how the call before it ended
    runs,       \* number of calls made
    forest,     \* the forests fitted so far: (random_state, X_scaled) -> scores
    sorter,     \* the sorts done so far: table -> the arrangement it came out in
    allow_nan,  \* whether the installed forest takes NaN: unknown until tried
    sample_X,   \* the notebook's three tables X_a, X_b, X_c
    sample_in,  \* the three tables as loaded
    sample_pc,  \* where the call on each sample stands
    sample_local, \* each call's local names X_scaled and iso_forest
    sample_out  \* what each call returned

single_vars == <<X, X_in, X_grouped, result, prev, runs, allow_nan>>
sample_vars == <<sample_X, sample_in, sample_pc, sample_local, sample_out>>
vars == <<X, X_in, X_grouped, result, prev, runs, forest, sorter, allow_nan,
          sample_X, sample_in, sample_pc, sample_local, sample_out>>

\* ------------------------------------------------------------------ bounds
MaxCells == 3
MaxRuns == 2
MaxSampleCells == 2

\* ------------------------------------------------------ program constants
DefaultRandomState == 42
MinScoreWeight == 7
MeanScoreWeight == 3
WeightDen == 10

\* --------------------------------------------------------- input alphabet
Dextramers == <<"A", "B">>
Clonotypes == <<"c1", "c2">>
NA == "NA"
CellKeys ==
    {<<Dextramers[1], Clonotypes[1]>>, <<Dextramers[1], Clonotypes[2]>>,
     <<Dextramers[2], Clonotypes[1]>>, <<Dextramers[1], NA>>}
feature_cols == <<"dex_norm">>
MinCellsArgs == {-1, 0, 1}
RandomStates == {DefaultRandomState}
Scores == {-1, 1}

Float(v) == [kind |-> "float", val |-> v]
NumStr(v) == [kind |-> "numstr", val |-> v]
Text == [kind |-> "text", val |-> 0]
Missing == [kind |-> "nan", val |-> 0]
CleanValues == {Float(0), Float(1)}
DirtyValues == CleanValues \cup {NumStr(1), Text, Missing}

\* ------------------------------------------------------------- arithmetic
Abs(n) == IF n < 0 THEN -n ELSE n

RECURSIVE GCD(_, _)
GCD(a, b) == IF b = 0 THEN a ELSE GCD(b, a % b)

Rat(n, d) ==
    IF d = 0 THEN [num |-> 0, den |-> 0]
    ELSE LET g == GCD(Abs(n), Abs(d))
             s == IF d < 0 THEN -1 ELSE 1
         IN [num |-> (s * n) \div g, den |-> (s * d) \div g]

NaN == Rat(0, 0)
IsNaN(r) == r.den = 0
RatLeq(a, b) == a.num * b.den <= b.num * a.den
RatLess(a, b) == a.num * b.den < b.num * a.den

RECURSIVE SeqSum(_)
SeqSum(s) == IF s = <<>> THEN 0 ELSE Head(s) + SeqSum(Tail(s))

RECURSIVE SeqMin(_)
SeqMin(s) == IF Len(s) = 1 THEN s[1]
             ELSE LET m == SeqMin(Tail(s)) IN IF s[1] <= m THEN s[1] ELSE m

NRows(T) == Len(T["dextramer"])

\* A sequence given by a function constructor, written out element by element
\* (so that it is computed once, not on every access).
Listed(q) == q \o <<>>

\* ------------------------------------------------ X_model = X[feature_cols]
\* Row i of the selected columns, in the order of cols.
SelectColumnsAll(T, cols) ==
    LET extra == IF "binding_anomaly_score" \in DOMAIN T
                 THEN <<"binding_anomaly_score">> ELSE <<>>
        all == cols \o extra
    IN [i \in 1..NRows(T) |->
          [j \in 1..Len(all) |->
             IF j <= Len(cols) THEN T[all[j]][i]
             ELSE Float(T[all[j]][i])]]

SelectColumns(T, cols) ==
    Listed([i \in 1..NRows(T) |-> Listed([j \in 1..Len(cols) |-> T[cols[j]][i]])])

\* ------------------------------------------ StandardScaler.fit_transform
\* The library's input validation: at least one row, and
\* every cell convertible to float64 (numbers, numeric strings and missing
\* values are; other text is not).
EnoughSamplesNone(n) == TRUE

EnoughSamples(n) == n >= 1

ConvertibleCoerce(v) == TRUE

Convertible(v) == v.kind # "text"

ToFloat(v) ==
    CASE v.kind = "float" -> Rat(v.val, 1)
      [] v.kind = "numstr" -> Rat(v.val, 1)
      [] OTHER -> NaN

CheckArrayAccepts(M) ==
    /\ EnoughSamples(Len(M))
    /\ \A i \in 1..Len(M) : \A j \in 1..Len(M[i]) : Convertible(M[i][j])

\* Column j of the converted matrix, missing values left out (they are
\* disregarded in fit and kept in transform).
RECURSIVE ColumnNums(_, _, _)
ColumnNums(M, j, i) ==
    IF i > Len(M) THEN <<>>
    ELSE LET r == ToFloat(M[i][j])
         IN (IF IsNaN(r) THEN <<>> ELSE <<r.num>>) \o ColumnNums(M, j, i + 1)

RECURSIVE SumSquares(_)
SumSquares(s) == IF s = <<>> THEN 0 ELSE Head(s) * Head(s) + SumSquares(Tail(s))

\* z = (x - mean) / std with mean and std of the column itself; a column of
\* zero variance is scaled by 1.  z is irrational in general, so it is
\* carried exactly as sign(z) * z^2 = (n*x - S)*|n*x - S| / (n*Q - S^2).
Standardize(x, col) ==
    LET n == Len(col)
        S == SeqSum(col)
        Q == SumSquares(col)
        D == n * Q - S * S
        d == n * x - S
    IN IF D = 0 THEN Rat(0, 1) ELSE Rat(d * Abs(d), D)

fit_transform(M) ==
    LET cols == IF M = <<>> THEN <<>>
                ELSE Listed([j \in 1..Len(M[1]) |-> ColumnNums(M, j, 1)])
    IN Listed([i \in 1..Len(M) |->
          Listed([j \in 1..Len(M[i]) |->
             LET r == ToFloat(M[i][j])
             IN IF IsNaN(r) THEN NaN ELSE Standardize(r.num, cols[j])])])

HasNaN(Z) == \E i \in 1..Len(Z) : \E j \in 1..Len(Z[i]) : IsNaN(Z[i][j])

\* ------------------------------------------------------- IsolationForest
\* The fitted forest is a deterministic function of the training matrix,
\* the contamination and random_state; its decision_function maps each row
\* vector to a score.  The library is not part of the repository: the
\* function is left uninterpreted and revealed call by call in forest.
RowSet(Z) == {Z[i] : i \in 1..Len(Z)}

ForestKey(Z, rs) == <<rs, Z>>

ForestChoices(Z, rs) ==
    IF ForestKey(Z, rs) \in DOMAIN forest
    THEN {forest[ForestKey(Z, rs)]}
    ELSE [RowSet(Z) -> Scores]

decision_function(model, Z) == Listed([i \in 1..Len(Z) |-> model[Z[i]]])

\* predict: -1 where decision_function < 0, else 1
predict(model, Z) ==
    Listed([i \in 1..Len(Z) |-> IF model[Z[i]] < 0 THEN -1 ELSE 1])

\* ------------------------------------------------------ X[col] = values
Reverse(q) == [i \in 1..Len(q) |-> q[Len(q) + 1 - i]]

SetItemMisaligned(T, col, values) ==
    [c \in DOMAIN T \cup {col} |-> IF c = col THEN values ELSE Reverse(T[c])]

SetItem(T, col, values) ==
    [c \in DOMAIN T \cup {col} |-> IF c = col THEN values ELSE T[c]]

\* ------------------- X.groupby(["dextramer", "raw_clonotype_id"]).agg(...)
\* Sums and products of fractions, left unreduced; Reduced brings the result
\* to lowest terms.
RatAdd(a, b) == [num |-> a.num * b.den + b.num * a.den, den |-> a.den * b.den]
RatMul(a, b) == [num |-> a.num * b.num, den |-> a.den * b.den]
Reduced(r) == Rat(r.num, r.den)
Tenths(n) == [num |-> n, den |-> WeightDen]

\* Rows of one group, in table order.  A row whose key is missing belongs to
\* no group (groupby drops missing keys).
GroupRowsByDextramer(T, d, c) ==
    SelectSeq([i \in 1..NRows(T) |-> i], LAMBDA i : T["dextramer"][i] = d)

GroupRows(T, d, c) ==
    SelectSeq([i \in 1..NRows(T) |-> i],
              LAMBDA i : T["dextramer"][i] = d /\ T["raw_clonotype_id"][i] = c)

ScoresOf(T, idx) ==
    Listed([k \in 1..Len(idx) |-> T["binding_anomaly_score"][idx[k]]])

CountNunique(sc) == Cardinality({sc[k] : k \in 1..Len(sc)})

Count(sc) == Len(sc)

Aggregate(T, d, c, idx) ==
    LET sc == ScoresOf(T, idx)
    IN [dextramer |-> d, raw_clonotype_id |-> c,
        mean_score |-> Rat(SeqSum(sc), Len(sc)),
        min_score |-> [num |-> SeqMin(sc), den |-> 1],
        count |-> Count(sc)]

\* Group keys come out sorted: dextramer first, then raw_clonotype_id.
GroupKeys ==
    Listed([k \in 1..(Len(Dextramers) * Len(Clonotypes)) |->
        <<Dextramers[((k - 1) \div Len(Clonotypes)) + 1],
          Clonotypes[((k - 1) % Len(Clonotypes)) + 1]>>])

RECURSIVE GroupBy(_, _)
GroupBy(T, k) ==
    IF k > Len(GroupKeys) THEN <<>>
    ELSE LET idx == GroupRows(T, GroupKeys[k][1], GroupKeys[k][2])
         IN (IF idx # <<>>
             THEN <<Aggregate(T, GroupKeys[k][1], GroupKeys[k][2], idx)>>
             ELSE <<>>) \o GroupBy(T, k + 1)

\* ------------------------------- X_grouped[X_grouped["count"] > min_cells]
KeepsGroupGeq(g, min_cells) == g.count >= min_cells

KeepsGroupAbs(g, min_cells) == g.count > Abs(min_cells)

KeepsGroup(g, min_cells) == g.count > min_cells

RECURSIVE Filter(_, _)
Filter(G, min_cells) ==
    IF G = <<>> THEN <<>>
    ELSE (IF KeepsGroup(Head(G), min_cells) THEN <<Head(G)>> ELSE <<>>)
         \o Filter(Tail(G), min_cells)

\* --------------------- final_score = min_score * 0.7 + mean_score * 0.3
FinalScoreSwapped(min_score, mean_score) ==
    Reduced(RatAdd(RatMul(min_score, Tenths(MeanScoreWeight)),
                   RatMul(mean_score, Tenths(MinScoreWeight))))

FinalScore(min_score, mean_score) ==
    Reduced(RatAdd(RatMul(min_score, Tenths(MinScoreWeight)),
                   RatMul(mean_score, Tenths(MeanScoreWeight))))

WithFinalScore(G) ==
    Listed([k \in 1..Len(G) |->
       [dextramer |-> G[k].dextramer,
        raw_clonotype_id |-> G[k].raw_clonotype_id,
        mean_score |-> G[k].mean_score,
        min_score |-> G[k].min_score,
        count |-> G[k].count,
        final_score |-> FinalScore(G[k].min_score, G[k].mean_score)]])

\* ------------------------------- X_grouped.sort_values(by="final_score")
\* The default sort kind is quicksort, which is not stable: the result is
\* some arrangement of the rows in ascending final_score, the same one
\* whenever the same table is sorted again (revealed call by call in sorter).
Perms(n) ==
    {p \in [1..n -> 1..n] : \A a, b \in 1..n : a # b => p[a] # p[b]}

IsAscending(R) ==
    \A k \in 1..(Len(R) - 1) : RatLeq(R[k].final_score, R[k + 1].final_score)

IsDescending(R) ==
    \A k \in 1..(Len(R) - 1) : RatLeq(R[k + 1].final_score, R[k].final_score)

sort_valuesDescending(G) ==
    {R \in {Listed([k \in 1..Len(G) |-> G[p[k]]]) : p \in Perms(Len(G))} :
        IsDescending(R)}

sort_valuesOmitted(G) == {G}

sort_values(G) ==
    {R \in {Listed([k \in 1..Len(G) |-> G[p[k]]]) : p \in Perms(Len(G))} :
        IsAscending(R)}

SortChoices(G) ==
    IF G \in DOMAIN sorter THEN {sorter[G]} ELSE sort_values(G)

\* ------------------------------------------------------------ the call
NoResult == [status |-> "none"]

Raised(step, mc, rs) ==
    [status |-> "raised", error |-> "ValueError", step |-> step,
     min_cells |-> mc, random_state |-> rs]

Returned(ranked, table, mc, rs) ==
    [status |-> "returned", X_ranked |-> ranked, X |-> table,
     min_cells |-> mc, random_state |-> rs]

Tables(n, keys, values) ==
    {[dextramer |-> [i \in 1..n |-> k[i][1]],
      raw_clonotype_id |-> [i \in 1..n |-> k[i][2]],
      dex_norm |-> f] :
        k \in [1..n -> keys], f \in [1..n -> values]}

\* The table as loaded by pd.read_parquet, before the first call: cells of
\* several pairs (one of them unassigned) with clean feature values, or cells
\* of one pair with any feature values.
Init ==
    /\ X \in UNION {Tables(n, CellKeys, CleanValues)
                    \cup Tables(n, {<<Dextramers[1], Clonotypes[1]>>}, DirtyValues) :
                    n \in 0..MaxCells}
    /\ X_in = X
    /\ X_grouped = <<>>
    /\ result = NoResult
    /\ prev = NoResult
    /\ runs = 0
    /\ forest = <<>>
    /\ sorter = <<>>
    /\ allow_nan = "unknown"
    /\ sample_X = <<>>
    /\ sample_in = <<>>
    /\ sample_pc = <<>>
    /\ sample_local = <<>>
    /\ sample_out = <<>>

\* The notebook cell that applies the model is written with fixed arguments:
\* executing it again repeats the call with the arguments of the first one.
MinCellsOfCall ==
    IF result.status = "none" THEN MinCellsArgs ELSE {result.min_cells}

RandomStateOfCall ==
    IF result.status = "none" THEN RandomStates ELSE {result.random_state}

\* run_isolation_forest raises inside fit_transform: nothing was assigned.
RaiseInScaler ==
    /\ runs < MaxRuns
    /\ ~CheckArrayAccepts(SelectColumns(X, feature_cols))
    /\ \E mc \in MinCellsOfCall : \E rs \in RandomStateOfCall :
         result' = Raised("standardize", mc, rs)
    /\ prev' = result
    /\ X_in' = X
    /\ X_grouped' = <<>>
    /\ runs' = runs + 1
    /\ UNCHANGED <<X, forest, sorter, allow_nan>>
    /\ UNCHANGED sample_vars

\* run_isolation_forest raises inside iso_forest.fit: the installed forest
\* refuses a training matrix that holds NaN.
RaiseInFit ==
    /\ runs < MaxRuns
    /\ allow_nan \in {"unknown", "reject"}
    /\ CheckArrayAccepts(SelectColumns(X, feature_cols))
    /\ HasNaN(fit_transform(SelectColumns(X, feature_cols)))
    /\ allow_nan' = "reject"
    /\ \E mc \in MinCellsOfCall : \E rs \in RandomStateOfCall :
         result' = Raised("fit", mc, rs)
    /\ prev' = result
    /\ X_in' = X
    /\ X_grouped' = <<>>
    /\ runs' = runs + 1
    /\ UNCHANGED <<X, forest, sorter>>
    /\ UNCHANGED sample_vars

\* run_isolation_forest runs to its return statement.
RunToReturn ==
    /\ runs < MaxRuns
    /\ CheckArrayAccepts(SelectColumns(X, feature_cols))
    /\ LET X_model == SelectColumns(X, feature_cols)
           X_scaled == fit_transform(X_model)
       IN /\ HasNaN(X_scaled) => allow_nan \in {"unknown", "accept"}
          /\ allow_nan' = IF HasNaN(X_scaled) THEN "accept" ELSE allow_nan
          /\ \E rs \in RandomStateOfCall :
             \E iso_forest \in ForestChoices(X_scaled, rs) :
               LET X1 == SetItem(X, "binding_anomaly_score",
                                 decision_function(iso_forest, X_scaled))
                   X2 == SetItem(X1, "is_likely_binder",
                                 predict(iso_forest, X_scaled))
                   grouped == GroupBy(X2, 1)
               IN /\ X' = X2
                  /\ X_grouped' = grouped
                  /\ forest' = (ForestKey(X_scaled, rs) :> iso_forest) @@ forest
                  /\ \E mc \in MinCellsOfCall :
                       LET scored == WithFinalScore(Filter(grouped, mc))
                       IN \E X_ranked \in SortChoices(scored) :
                            /\ result' = Returned(X_ranked, X2, mc, rs)
                            /\ sorter' = (scored :> X_ranked) @@ sorter
    /\ prev' = result
    /\ X_in' = X
    /\ runs' = runs + 1
    /\ UNCHANGED sample_vars

Next ==
    \/ RaiseInScaler
    \/ RaiseInFit
    \/ RunToReturn

Spec == Init /\ [][Next]_vars

\* ------------------------------------------------- the three samples
\* X_a, X_b, X_c = pd.read_parquet(...): three names, each bound to a table
\* of its own.  The cell that applies the model makes one call per sample;
\* the calls are followed statement by statement, in any order and with
\* their statements interleaved in any way.
SampleNames == <<"X_a", "X_b", "X_c">>
Samples == {SampleNames[k] : k \in 1..Len(SampleNames)}

\* Each read_parquet call builds a new table: the three names are bound to
\* three different objects.
FrameOfShared(s) == SampleNames[1]
FrameOf(s) == s

\* The cells of a sample: MaxSampleCells cells of one pair.
SampleTables ==
    Tables(MaxSampleCells, {<<Dextramers[1], Clonotypes[1]>>}, CleanValues)

\* The calls pass feature_cols only: random_state and min_cells take the one
\* value the signature gives them (the threshold on the scale of the tables).
SampleMinCellsArgs == {0}

NoLocals == [X_scaled |-> <<>>]

InitSamples ==
    /\ sample_in \in [Samples -> SampleTables]
    /\ sample_X = sample_in
    /\ sample_pc = [s \in Samples |-> "start"]
    /\ sample_local = [s \in Samples |-> NoLocals]
    /\ sample_out = [s \in Samples |-> NoResult]
    /\ X = <<>>
    /\ X_in = <<>>
    /\ X_grouped = <<>>
    /\ result = NoResult
    /\ prev = NoResult
    /\ runs = 0
    /\ forest = <<>>
    /\ sorter = <<>>
    /\ allow_nan = "unknown"

\* X_model = X[feature_cols]; X_scaled = scaler.fit_transform(X_model);
\* iso_forest = IsolationForest(...); iso_forest.fit(X_scaled)
SampleFit(s) ==
    /\ sample_pc[s] = "start"
    /\ CheckArrayAccepts(SelectColumns(sample_X[FrameOf(s)], feature_cols))
    /\ LET X_scaled ==
               fit_transform(SelectColumns(sample_X[FrameOf(s)], feature_cols))
       IN /\ ~HasNaN(X_scaled)
          /\ \E rs \in RandomStates :
             \E iso_forest \in ForestChoices(X_scaled, rs) :
               /\ sample_local' = [sample_local EXCEPT ![s] =
                      [X_scaled |-> X_scaled, iso_forest |-> iso_forest,
                       random_state |-> rs]]
               /\ forest' = (ForestKey(X_scaled, rs) :> iso_forest) @@ forest
    /\ sample_pc' = [sample_pc EXCEPT ![s] = "fitted"]
    /\ UNCHANGED <<sample_X, sample_in, sample_out, sorter>>
    /\ UNCHANGED single_vars

\* X["binding_anomaly_score"] = iso_forest.decision_function(X_scaled);
\* X["is_likely_binder"] = iso_forest.predict(X_scaled)
SampleScore(s) ==
    /\ sample_pc[s] = "fitted"
    /\ LET l == sample_local[s]
           X1 == SetItem(sample_X[FrameOf(s)], "binding_anomaly_score",
                         decision_function(l.iso_forest, l.X_scaled))
           X2 == SetItem(X1, "is_likely_binder",
                         predict(l.iso_forest, l.X_scaled))
       IN sample_X' = [sample_X EXCEPT ![FrameOf(s)] = X2]
    /\ sample_pc' = [sample_pc EXCEPT ![s] = "scored"]
    /\ UNCHANGED <<sample_in, sample_local, sample_out, forest, sorter>>
    /\ UNCHANGED single_vars

\* X_grouped = X.groupby(...)... ; the filter; final_score; the sort;
\* return X_ranked, X
SampleRank(s) ==
    /\ sample_pc[s] = "scored"
    /\ \E mc \in SampleMinCellsArgs :
         LET scored == WithFinalScore(
                           Filter(GroupBy(sample_X[FrameOf(s)], 1), mc))
         IN \E X_ranked \in SortChoices(scored) :
              /\ sample_out' = [sample_out EXCEPT ![s] =
                     Returned(X_ranked, sample_X[FrameOf(s)], mc,
                              sample_local[s].random_state)]
              /\ sorter' = (scored :> X_ranked) @@ sorter
    /\ sample_pc' = [sample_pc EXCEPT ![s] = "done"]
    /\ UNCHANGED <<sample_X, sample_in, sample_local, forest>>
    /\ UNCHANGED single_vars

NextSamples ==
    \E s \in Samples :
        \/ SampleFit(s)
        \/ SampleScore(s)
        \/ SampleRank(s)

SpecSamples == InitSamples /\ [][NextSamples]_vars

\* ================================================================ claims
Returns == result.status = "returned"
RaisesErr == result.status = "raised"
Called == result.status # "none"
DerivedCols == {"binding_anomaly_score", "is_likely_binder"}
KeyOf(r) == <<r.dextramer, r.raw_clonotype_id>>
RowKey(T, i) == <<T["dextramer"][i], T["raw_clonotype_id"][i]>>
CellsOf(T, key) == {i \in 1..NRows(T) : RowKey(T, i) = key}

RECURSIVE SetSum(_, _)
SetSum(f, S) ==
    IF S = {} THEN 0
    ELSE LET x == CHOOSE y \in S : TRUE IN f[x] + SetSum(f, S \ {x})

Thm_C2_Sorted ==
    Returns =>
        \A a, b \in 1..Len(result.X_ranked) :
            a < b =>
              ~RatLess(result.X_ranked[b].final_score,
                       result.X_ranked[a].final_score)

\* C2 witness: the group-key order was not ascending, and the returned table
\* holds the same pairs with distinct scores.
Wit_C2_Sorted ==
    /\ Returns
    /\ Len(result.X_ranked) >= 2
    /\ Len(result.X_ranked) = Len(X_grouped)
    /\ KeyOf(result.X_ranked[1]) # KeyOf(X_grouped[1])
    /\ RatLess(result.X_ranked[1].final_score, result.X_ranked[2].final_score)

\* C3: final_score = 0.7 * min_score + 0.3 * mean_score, with min_score and
\* mean_score the minimum and the mean of binding_anomaly_score over exactly
\* the cells of the row's (dextramer, raw_clonotype_id) pair.
Thm_C3_FinalScore ==
    Returns =>
        \A k \in 1..Len(result.X_ranked) :
            LET r == result.X_ranked[k]
                cells == CellsOf(X, KeyOf(r))
                sc == X["binding_anomaly_score"]
                n == Cardinality(cells)
                total == SetSum(sc, cells)
            IN /\ n >= 1
               /\ r.count = n
               /\ r.min_score.den = 1
               /\ \E i \in cells : sc[i] = r.min_score.num
               /\ \A i \in cells : sc[i] >= r.min_score.num
               /\ r.mean_score.num * n = total * r.mean_score.den
               /\ r.mean_score.den > 0
               /\ r.final_score.den > 0
               /\ r.final_score.num * (WeightDen * n)
                    = (MinScoreWeight * r.min_score.num * n
                       + MeanScoreWeight * total) * r.final_score.den

\* C3 witness: a ranked pair of several cells whose minimum and mean differ.
Wit_C3_FinalScore ==
    /\ Returns
    /\ \E k \in 1..Len(result.X_ranked) :
         /\ result.X_ranked[k].count >= 2
         /\ result.X_ranked[k].min_score # result.X_ranked[k].mean_score
         /\ result.X_ranked[k].final_score # result.X_ranked[k].min_score

CountSum(G) == SeqSum([k \in 1..Len(G) |-> G[k].count])
KeyPresent(T, i) ==
    T["dextramer"][i] # NA /\ T["raw_clonotype_id"][i] # NA
PosInGrouped(r) ==
    CHOOSE g \in 1..Len(X_grouped) : KeyOf(X_grouped[g]) = KeyOf(r)
HasDirty(T, kinds) ==
    \E i \in 1..NRows(T) : \E j \in 1..Len(feature_cols) :
        T[feature_cols[j]][i].kind \in kinds

ValidConfig == result.min_cells >= 0

\* C4 as stated (for a call with min_cells >= 0): every cell, also one whose
\* raw_clonotype_id is absent, is counted in exactly one aggregate, so the
\* counts before the filter sum to the number of cells, and every aggregate's
\* key is carried by some cell.
Orig_C4_EveryCellGrouped ==
    (Returns /\ ValidConfig) =>
        /\ CountSum(X_grouped) = NRows(X)
        /\ \A i \in 1..NRows(X) :
             Cardinality({g \in 1..Len(X_grouped) :
                 RowKey(X, i) = KeyOf(X_grouped[g])}) = 1
        /\ \A g \in 1..Len(X_grouped) : CellsOf(X, KeyOf(X_grouped[g])) # {}

\* C4 amended: every cell whose two keys are present is counted in exactly one
\* aggregate, a cell with an absent key in none; the counts before the filter
\* sum to the number of cells with both keys present, each aggregate counts
\* the cells of its key, and every aggregate's key is carried by some cell.
Thm_C4_PresentKeysGrouped ==
    Returns =>
        /\ CountSum(X_grouped) =
             Cardinality({i \in 1..NRows(X) : KeyPresent(X, i)})
        /\ \A i \in 1..NRows(X) :
             Cardinality({g \in 1..Len(X_grouped) :
                 RowKey(X, i) = KeyOf(X_grouped[g])})
               = IF KeyPresent(X, i) THEN 1 ELSE 0
        /\ \A g \in 1..Len(X_grouped) :
             /\ CellsOf(X, KeyOf(X_grouped[g])) # {}
             /\ X_grouped[g].count =
                  Cardinality(CellsOf(X, KeyOf(X_grouped[g])))

\* C4 witness: a table with an unassigned cell and a pair of several cells.
Wit_C4_PresentKeysGrouped ==
    /\ Returns
    /\ \E i \in 1..NRows(X) : ~KeyPresent(X, i)
    /\ \E g \in 1..Len(X_grouped) : X_grouped[g].count >= 2
    /\ CountSum(X_grouped) < NRows(X)

\* C5 as stated (for a call with min_cells >= 0): pairs of equal final_score
\* keep their group-key order.
Orig_C5_StableSort ==
    (Returns /\ ValidConfig) =>
        \A a, b \in 1..Len(result.X_ranked) :
            (a < b /\ result.X_ranked[a].final_score
                        = result.X_ranked[b].final_score)
              => PosInGrouped(result.X_ranked[a]) < PosInGrouped(result.X_ranked[b])

\* C5 amended: pairs of equal final_score are placed next to each other (no
\* pair of another score between them); their relative order is not fixed.
Thm_C5_TiesAdjacent ==
    Returns =>
        \A a, b, c \in 1..Len(result.X_ranked) :
            (a < c /\ c < b /\ result.X_ranked[a].final_score
                                 = result.X_ranked[b].final_score)
              => result.X_ranked[c].final_score = result.X_ranked[a].final_score

\* C5 witness: two pairs of equal min_score and mean_score but different
\* count come out in the reverse of their group-key order.
Wit_C5_TiesAdjacent ==
    /\ Returns
    /\ \E a, b \in 1..Len(result.X_ranked) :
         /\ a < b
         /\ result.X_ranked[a].final_score = result.X_ranked[b].final_score
         /\ result.X_ranked[a].count # result.X_ranked[b].count
         /\ result.X_ranked[a].min_score = result.X_ranked[b].min_score
         /\ result.X_ranked[a].mean_score = result.X_ranked[b].mean_score
         /\ PosInGrouped(result.X_ranked[a]) > PosInGrouped(result.X_ranked[b])

\* C6 as stated: a call with negative min_cells ends in an error (whatever it
\* is named) raised before any processing: nothing is scored, no derived
\* column is added to the table and no ranked table is returned.
Orig_C6_NegativeRejected ==
    (Called /\ result.min_cells < 0) =>
        /\ RaisesErr
        /\ DOMAIN X \cap DerivedCols = {}

\* C6 amended: negative min_cells is accepted; the call is processed as any
\* other, and when it returns every pair of the grouping is ranked (the filter
\* count > min_cells removes nothing) and the table has the derived columns.
Thm_C6_NegativeAccepted ==
    (Called /\ result.min_cells < 0) =>
        /\ RaisesErr => result.error # "InvalidConfiguration"
        /\ Returns =>
             /\ Len(result.X_ranked) = Len(X_grouped)
             /\ \A g \in 1..Len(X_grouped) :
                  \E k \in 1..Len(result.X_ranked) :
                      KeyOf(result.X_ranked[k]) = KeyOf(X_grouped[g])
             /\ DerivedCols \subseteq DOMAIN X

\* C6 witness: a call with min_cells = -1 returned a ranked single-cell pair.
Wit_C6_NegativeAccepted ==
    /\ Returns
    /\ result.min_cells < 0
    /\ \E k \in 1..Len(result.X_ranked) : result.X_ranked[k].count = 1

\* C7 as stated (for a call with min_cells >= 0): a missing or non-numeric
\* value in a feature column ends the call in an error (whatever it is named)
\* before scoring; the value is never coerced, no derived column is produced
\* and no ranked table is returned.
Orig_C7_DirtyRejected ==
    (Called /\ ValidConfig /\ HasDirty(X_in, {"numstr", "text", "nan"})) =>
        /\ RaisesErr
        /\ DOMAIN X \cap DerivedCols = {}

\* C7 amended: a feature value that cannot be converted to a number ends the
\* call in the error raised by the standardization step, before the scoring
\* step: the table is left as it was, without derived columns, and no ranked
\* table is returned.
Thm_C7_TextRejected ==
    (Called /\ HasDirty(X_in, {"text"})) =>
        /\ RaisesErr
        /\ result.step = "standardize"
        /\ X = X_in
        /\ DOMAIN X \cap DerivedCols = {}
        /\ X_grouped = <<>>

\* C7 witness: a call on a table holding a clean value and a text value.
Wit_C7_TextRejected ==
    /\ RaisesErr
    /\ HasDirty(X_in, {"text"})
    /\ HasDirty(X_in, {"float"})

\* C8 as stated (for a call with min_cells >= 0): a call on a table of zero
\* rows returns an empty ranked table and raises at no step.
Orig_C8_EmptyReturnsEmpty ==
    (Called /\ ValidConfig /\ NRows(X_in) = 0) =>
        (Returns /\ result.X_ranked = <<>>)

\* C8 amended: a call on a table of zero rows ends in the error raised by the
\* standardization step; no ranked table is returned and the table is left
\* without derived columns.
Thm_C8_EmptyRaises ==
    (Called /\ NRows(X_in) = 0) =>
        /\ RaisesErr
        /\ result.step = "standardize"
        /\ X = X_in
        /\ DOMAIN X \cap DerivedCols = {}

\* C8 witness: a call on the table of zero rows has ended.
Wit_C8_EmptyRaises == Called /\ NRows(X_in) = 0 /\ NRows(X) = 0

\* C9: a second call on the same table with the same random_state and
\* min_cells returns the ranked table the first call returned.
Thm_C9_Idempotent ==
    (/\ Returns
     /\ prev.status = "returned"
     /\ prev.min_cells = result.min_cells
     /\ prev.random_state = result.random_state)
      => result.X_ranked = prev.X_ranked

\* C9 witness: both calls returned a table of several pairs, two of them of
\* equal final_score, and the second call found the derived columns in place.
Wit_C9_Idempotent ==
    /\ Returns
    /\ prev.status = "returned"
    /\ prev.min_cells = result.min_cells
    /\ prev.random_state = result.random_state
    /\ DerivedCols \subseteq DOMAIN X_in
    /\ Len(result.X_ranked) >= 3
    /\ \E a, b \in 1..Len(result.X_ranked) :
         /\ a # b
         /\ result.X_ranked[a].final_score = result.X_ranked[b].final_score

\* C10: a call that returns changes the table only by the two derived
\* columns: the rows, their order, the keys and the features are as before,
\* every row has both derived values, and the caller receives the augmented
\* table together with the ranked table.  A call that raises changes nothing.
Thm_C10_Frame ==
    /\ Returns =>
         /\ DOMAIN X = DOMAIN X_in \cup DerivedCols
         /\ \A c \in DOMAIN X_in \ DerivedCols : X[c] = X_in[c]
         /\ \A c \in DerivedCols :
              /\ Len(X[c]) = NRows(X_in)
              /\ \A i \in 1..Len(X[c]) : X[c][i] \in {-1, 1}
         /\ \A i \in 1..NRows(X) :
              X["is_likely_binder"][i] =
                 IF X["binding_anomaly_score"][i] < 0 THEN -1 ELSE 1
         /\ result.X = X
         /\ Len(result.X_ranked) <= NRows(X)
    /\ RaisesErr => X = X_in

\* C10 witness: the first call on a table of several different rows returned.
Wit_C10_Frame ==
    /\ Returns
    /\ prev.status = "none"
    /\ DOMAIN X_in \cap DerivedCols = {}
    /\ NRows(X) >= 3
    /\ X["dextramer"][1] # X["dextramer"][NRows(X)]
    /\ X["dex_norm"][1] # X["dex_norm"][NRows(X)]
    /\ X["binding_anomaly_score"][1] # X["binding_anomaly_score"][NRows(X)]

\* What a call on table T alone produces, the forest and the sort being the
\* functions of their inputs that the calls so far have shown them to be.
ForestKnown(T, rs) ==
    ForestKey(fit_transform(SelectColumns(T, feature_cols)), rs)
        \in DOMAIN forest

AloneTable(T, rs) ==
    LET Z == fit_transform(SelectColumns(T, feature_cols))
        f == forest[ForestKey(Z, rs)]
    IN SetItem(SetItem(T, "binding_anomaly_score", decision_function(f, Z)),
               "is_likely_binder", predict(f, Z))

AloneScored(table, mc) == WithFinalScore(Filter(GroupBy(table, 1), mc))

\* C11: the three calls share no state.  Whatever the order and interleaving
\* of their statements, a sample's table is the loaded one until its own call
\* writes the derived columns, and from then on the table a call on that
\* sample alone produces; the returned pair is the one a call on that sample
\* alone returns; so two samples loaded with equal tables get equal results.
Thm_C11_SamplesIndependent ==
    \A s \in Samples :
        /\ sample_pc[s] \in {"start", "fitted"} => sample_X[s] = sample_in[s]
        /\ sample_pc[s] \in {"scored", "done"} =>
             /\ ForestKnown(sample_in[s], DefaultRandomState)
             /\ LET alone == AloneTable(sample_in[s], DefaultRandomState)
                IN /\ sample_X[s] = alone
                   /\ sample_pc[s] = "done" =>
                        \E mc \in SampleMinCellsArgs :
                          LET scored == AloneScored(alone, mc)
                          IN /\ scored \in DOMAIN sorter
                             /\ sample_out[s] =
                                  Returned(sorter[scored], alone, mc,
                                           DefaultRandomState)
        /\ \A t \in Samples :
             (sample_pc[s] = "done" /\ sample_pc[t] = "done"
                /\ sample_in[s] = sample_in[t]) =>
                 sample_out[s] = sample_out[t]

\* C11 witness: the call on X_a has fitted its forest and not yet written,
\* and meanwhile the calls on X_b (loaded with the same cells as X_a) and on
\* X_c (other cells) ran to their return, each ranking its pair.
Wit_C11_SamplesIndependent ==
    /\ sample_pc = [s \in Samples |->
                       IF s = SampleNames[1] THEN "fitted" ELSE "done"]
    /\ sample_in[SampleNames[1]] = sample_in[SampleNames[2]]
    /\ sample_in[SampleNames[3]] # sample_in[SampleNames[1]]
    /\ sample_out[SampleNames[2]].X # sample_out[SampleNames[3]].X
    /\ Len(sample_out[SampleNames[2]].X_ranked) = 1
    /\ Len(sample_out[SampleNames[3]].X_ranked) = 1


\* The (dextramer, raw_clonotype_id) combinations the cells of T carry, and
\* the rows of the ranked table that stand for a combination.
PairsOf(T) == {RowKey(T, i) : i \in 1..NRows(T)}
PairPresent(key) == key[1] # NA /\ key[2] # NA
RankedRowsOf(key) ==
    {k \in 1..Len(result.X_ranked) : KeyOf(result.X_ranked[k]) = key}
Qualifies(T, key) == Cardinality(CellsOf(T, key)) > result.min_cells
CleanFeatures(T) == ~HasDirty(T, {"numstr", "text", "nan"})

\* C12 as stated (for a call with min_cells >= 0 on clean feature values):
\* every pair carried by more than min_cells cells, the pairs of unassigned
\* cells included, has exactly one row in the ranked table, there is no other
\* row, and a non-empty table where no pair qualifies returns an empty table.
Orig_C12_RankedComplete ==
    (Called /\ ValidConfig /\ CleanFeatures(X_in) /\ NRows(X_in) >= 1) =>
        /\ Returns
        /\ \A key \in PairsOf(X_in) :
             Cardinality(RankedRowsOf(key)) =
                 IF Qualifies(X_in, key) THEN 1 ELSE 0
        /\ \A k \in 1..Len(result.X_ranked) :
             KeyOf(result.X_ranked[k]) \in PairsOf(X_in)

\* C12 amended: whenever the call returns, the ranked table has exactly one
\* row for each pair with both keys present that more than min_cells cells
\* carry, that row counts those cells, and there is no other row: none for a
\* pair with too few cells, none for the cells with an absent key, none
\* twice.  On a non-empty table of clean feature values the call returns, and
\* if no such pair qualifies the ranked table is empty.
Thm_C12_RankedCompletePresent ==
    /\ Returns =>
         /\ \A key \in PairsOf(X_in) :
              Cardinality(RankedRowsOf(key)) =
                  IF PairPresent(key) /\ Qualifies(X_in, key) THEN 1 ELSE 0
         /\ \A k \in 1..Len(result.X_ranked) :
              /\ KeyOf(result.X_ranked[k]) \in PairsOf(X_in)
              /\ result.X_ranked[k].count =
                   Cardinality(CellsOf(X_in, KeyOf(result.X_ranked[k])))
         /\ Len(result.X_ranked) =
              Cardinality({key \in PairsOf(X_in) :
                  PairPresent(key) /\ Qualifies(X_in, key)})
    /\ (Called /\ CleanFeatures(X_in) /\ NRows(X_in) >= 1) =>
         /\ Returns
         /\ (\A key \in PairsOf(X_in) :
                ~(PairPresent(key) /\ Qualifies(X_in, key)))
              => result.X_ranked = <<>>

\* C12 witness: of three cells, two pairs qualify and are ranked, and the
\* unassigned cell, although more than min_cells cells carry its pair, is not.
Wit_C12_RankedCompletePresent ==
    /\ Returns
    /\ ValidConfig
    /\ Len(result.X_ranked) = 2
    /\ \E key \in PairsOf(X_in) :
         /\ ~PairPresent(key)
         /\ Qualifies(X_in, key)
         /\ RankedRowsOf(key) = {}

====
